---- MODULE Spec2Model ----
(***************************************************************************)
(* Circuit-symbol editor: the canvas controller (CircuitCanvas), the       *)
(* placed instances (CircuitComponent), the grid (GridManager), the        *)
(* registry (ComponentRegistry), the asset loader (SVGManager), the page   *)
(* keyboard shortcuts (App) and the preset library (ComponentLibrary).     *)
(***************************************************************************)
EXTENDS Integers, Sequences, FiniteSets, TLC

(***************************************************************************)
(* Bounds of the model.                                                    *)
(***************************************************************************)
\* CircuitComponent objects alive at once (in the collection or on the canvas)
MaxObjects == 2
\* length of an imported JSON array
MaxImportLen == 2
\* the id counter is not advanced beyond this value by addComponent
MaxNextId == 3

(***************************************************************************)
(* Strings are sequences of one-character strings, so that template        *)
(* literals, split('_') and parseInt are computed, not assumed.            *)
(***************************************************************************)
DigitChars == <<"0", "1", "2", "3", "4", "5", "6", "7", "8", "9">>

IsDigit(c) == \E i \in 1..10 : DigitChars[i] = c

DigitVal(c) == (CHOOSE i \in 1..10 : DigitChars[i] = c) - 1

\* String(n) for a non-negative integer n
RECURSIVE Digits(_)
Digits(n) ==
    IF n < 10 THEN <<DigitChars[n + 1]>>
    ELSE Digits(n \div 10) \o <<DigitChars[(n % 10) + 1]>>

\* String(undefined)
UndefinedText == <<"u", "n", "d", "e", "f", "i", "n", "e", "d">>

NaN == [nan |-> TRUE, v |-> 0]

Num(n) == [nan |-> FALSE, v |-> n]

\* value of the longest prefix of digits of s, acc digits read so far
RECURSIVE LeadingDigits(_, _, _)
LeadingDigits(s, acc, seen) ==
    IF s # <<>> /\ IsDigit(Head(s))
    THEN LeadingDigits(Tail(s), 10 * acc + DigitVal(Head(s)), TRUE)
    ELSE IF seen THEN Num(acc) ELSE NaN

\* parseInt(s): optional sign, then the leading decimal digits; NaN if none
ParseInt(s) ==
    IF s # <<>> /\ Head(s) = "-"
    THEN LET r == LeadingDigits(Tail(s), 0, FALSE)
         IN  IF r.nan THEN NaN ELSE Num(0 - r.v)
    ELSE IF s # <<>> /\ Head(s) = "+"
    THEN LeadingDigits(Tail(s), 0, FALSE)
    ELSE LeadingDigits(s, 0, FALSE)

\* s.split('_'): the parts of s between underscores
RECURSIVE SplitUnderscore(_, _)
SplitUnderscore(s, cur) ==
    IF s = <<>> THEN <<cur>>
    ELSE IF Head(s) = "_" THEN <<cur>> \o SplitUnderscore(Tail(s), <<>>)
    ELSE SplitUnderscore(Tail(s), Append(cur, Head(s)))

\* parseInt(id.split('_')[1]); index 1 of a one-part split is undefined
IdNum(id) ==
    LET parts == SplitUnderscore(id, <<>>)
    IN  ParseInt(IF Len(parts) >= 2 THEN parts[2] ELSE UndefinedText)

ComponentPrefix == <<"c", "o", "m", "p", "o", "n", "e", "n", "t", "_">>

\* `component_${n}`
ComponentId(n) == ComponentPrefix \o Digits(n)

(***************************************************************************)
(* Registry.                                                               *)
(***************************************************************************)
RegisteredTypes == {"resistor", "capacitor", "inductor", "nmos", "pmos"}

\* ComponentRegistry.getDefinition(type): the definition, or undefined
HasDefinition(type) == type \in RegisteredTypes

\* the display name (definition.name) of a registered type
DisplayName(type) ==
    CASE type = "resistor" -> "抵抗"
      [] type = "capacitor" -> "コンデンサ"
      [] type = "inductor" -> "インダクタ"
      [] type = "nmos" -> "NMOS"
      [] type = "pmos" -> "PMOS"

(***************************************************************************)
(* Grid.                                                                   *)
(***************************************************************************)
DefaultGridSize == 20

\* the sizes the grid-size select offers
GridSizes == {20, 30}

\* Math.round resolving exact halves downwards
MathRoundHalfDown(num, den) == 0 - ((den - 2 * num) \div (2 * den))

\* Math.round(x) for x = num / den, den > 0: floor(x + 1/2)
MathRound(num, den) == (2 * num + den) \div (2 * den)

\* snapToGrid stepping to the multiple above Math.floor
SnapToGridNext(value, size) == (value \div size + 1) * size

\* snapToGrid with Math.floor in place of Math.round
SnapToGridFloor(value, size) == (value \div size) * size

\* GridManager.snapToGrid
SnapToGrid(value, size) == MathRound(value, size) * size

\* GridManager.snapPointToGrid
SnapPointToGrid(point, size) ==
    [x |-> SnapToGrid(point.x, size), y |-> SnapToGrid(point.y, size)]

(***************************************************************************)
(* State.                                                                  *)
(***************************************************************************)
VARIABLES
    components,  \* CircuitCanvas.components: Map id -> object, in insertion order
    canvas,      \* the children of the canvas <svg>, in document order
    objs,        \* the CircuitComponent objects reachable from the map or the canvas
    nextId,      \* CircuitCanvas.nextId
    gridSize,    \* GridManager.settings.size
    svgCache,    \* SVGManager.svgCache: type -> response text
    fetches,     \* asset requests in flight
    issued,      \* history: numbers of the ids addComponent has handed out
    last,        \* the last handler run and what it reported
    storage,     \* the localStorage entry 'circuitComponents'
    library,     \* the page's ComponentLibrary, once constructed
    snap,        \* a value, a cell size and the results of snapping it in turn
    ctl,         \* the palette selection, CircuitCanvas's click fields, PreviewManager's fields
    now,         \* Date.now()
    tally,       \* history: palette picks, instances placed by clicks, the last placing click
    peer,        \* a second CircuitCanvas on the page: its collection (ids) and id counter
    editor       \* the React circuit editor: its CircuitDiagram, the svg and the selection

vars == <<components, canvas, objs, nextId, gridSize, svgCache, fetches, issued, last,
          storage, library, snap, ctl, now, tally, peer, editor>>

pointerVars == <<ctl, now, tally>>

pageVars == <<peer, editor>>

canvasVars == <<components, canvas, objs, nextId, gridSize, svgCache, fetches, issued>>

Uids == 1..MaxObjects

\* the controller's state as one value, threaded through the handlers
St == [components |-> components, canvas |-> canvas, objs |-> objs,
       nextId |-> nextId, svgCache |-> svgCache, fetches |-> fetches, peer |-> peer]

(***************************************************************************)
(* Map<string, CircuitComponent>: entries keep their insertion order, set  *)
(* on an existing key replaces the value in place.                         *)
(***************************************************************************)
MapKeys(m) == {m[i].key : i \in 1..Len(m)}

MapObjs(m) == {m[i].obj : i \in 1..Len(m)}

MapHas(m, k) == k \in MapKeys(m)

MapGet(m, k) == m[CHOOSE i \in 1..Len(m) : m[i].key = k].obj

MapSet(m, k, o) ==
    IF MapHas(m, k)
    THEN [i \in 1..Len(m) |-> IF m[i].key = k THEN [key |-> k, obj |-> o] ELSE m[i]]
    ELSE Append(m, [key |-> k, obj |-> o])

MapDelete(m, k) == SelectSeq(m, LAMBDA e : e.key # k)

(***************************************************************************)
(* Canvas children: the <g class="placed-component"> of an object and the  *)
(* <foreignObject class="delete-button"> holding its delete button.        *)
(***************************************************************************)
ElementNode(u) == [kind |-> "g", obj |-> u]

ButtonNode(u) == [kind |-> "foreignObject", obj |-> u]

NodesOn(cv) == {cv[i] : i \in 1..Len(cv)}

ElementsOn(cv) == {n.obj : n \in {x \in NodesOn(cv) : x.kind = "g"}}

ButtonsOn(cv) == {n.obj : n \in {x \in NodesOn(cv) : x.kind = "foreignObject"}}

\* Element.remove() of both nodes of object u
Detach(cv, u) == SelectSeq(cv, LAMBDA n : n.obj # u)

\* objects still referenced by the map or attached to the canvas
LiveUids(st) == MapObjs(st.components) \cup ElementsOn(st.canvas) \cup ButtonsOn(st.canvas)

\* an object neither in the map nor on the canvas is unreachable: it is dropped,
\* and a request it issued stays in flight with no visible target (0)
Collect(st) ==
    LET live == LiveUids(st)
    IN  [st EXCEPT !.objs = [u \in live |-> st.objs[u]],
                   !.fetches = {[type |-> f.type, obj |-> IF f.obj \in live THEN f.obj ELSE 0] :
                                   f \in st.fetches}]

HasFreeUid(st) == Uids \ LiveUids(st) # {}

NewUid(st) == CHOOSE u \in Uids \ LiveUids(st) : \A w \in Uids \ LiveUids(st) : u <= w

(***************************************************************************)
(* Asset texts: the body of a 2xx response holding the symbol, the body of *)
(* an error response (a 404 page), and an empty body.                      *)
(***************************************************************************)
SvgText == "svg document"

ErrorPageText == "404 page"

EmptyText == ""

Loading == [kind |-> "loading", text |-> ""]

\* SVGManager.createSvgElement(type, svgText, scale): a group built from the text
CreateSvgElement(text) == [kind |-> "graphic", text |-> text]

\* SVGManager.createFallbackElement(definition.name): rectangle and name
CreateFallbackElement(type) == [kind |-> "fallback", text |-> DisplayName(type)]

\* CircuitComponent.loadSVGContent after its await: svgText is the text
\* loadSvgContent resolved to, or "null" (a flag, given apart)
LoadedVisual(type, isNull, svgText) ==
    IF isNull \/ svgText = EmptyText
    THEN CreateFallbackElement(type)
    ELSE CreateSvgElement(svgText)

\* new CircuitComponent(data, definition, svgManager) as object u: createElement
\* starts loadSVGContent; a cached text resolves before any other handler runs,
\* otherwise SVGManager.loadSvgContent issues a fetch
NewComponent(st, u, data) ==
    IF data.type \in DOMAIN st.svgCache
    THEN [st EXCEPT !.objs = [w \in DOMAIN st.objs \cup {u} |->
                        IF w = u
                        THEN [data |-> data, selected |-> FALSE, start |-> data.position,
                              visual |-> LoadedVisual(data.type, FALSE, st.svgCache[data.type])]
                        ELSE st.objs[w]]]
    ELSE [st EXCEPT !.objs = [w \in DOMAIN st.objs \cup {u} |->
                        IF w = u
                        THEN [data |-> data, selected |-> FALSE, start |-> data.position,
                              visual |-> Loading]
                        ELSE st.objs[w]],
                    !.fetches = @ \cup {[type |-> data.type, obj |-> u]}]

(***************************************************************************)
(* CircuitCanvas and CircuitComponent operations on the threaded state.    *)
(***************************************************************************)
\* CircuitCanvas.removeComponent(id)
RemoveComponent(st, id) ==
    IF MapHas(st.components, id)
    THEN [st EXCEPT !.components = MapDelete(@, id)]
    ELSE st

\* document.dispatchEvent of componentRemoved with detail id: the listener of
\* every CircuitCanvas on the page runs removeComponent(id) on its own map
ComponentRemoved(st, id) ==
    [RemoveComponent(st, id) EXCEPT !.peer.components = SelectSeq(@, LAMBDA k : k # id)]

\* CircuitComponent.remove() of object u: detach the element and the delete
\* button, then dispatch componentRemoved, which the canvas listeners handle
\* synchronously
RemoveObject(st, u) ==
    ComponentRemoved([st EXCEPT !.canvas = Detach(@, u)], st.objs[u].data.id)

\* components.forEach(component => component.remove()): the iteration is over
\* the live map, so an entry deleted by the callback is not visited again
RECURSIVE ForEachRemove(_, _)
ForEachRemove(st, i) ==
    IF i > Len(st.components) THEN st
    ELSE LET e == st.components[i]
             st2 == RemoveObject(st, e.obj)
         IN  IF i <= Len(st2.components) /\ st2.components[i] = e
             THEN ForEachRemove(st2, i + 1)
             ELSE ForEachRemove(st2, i)

\* CircuitCanvas.clearAll()
ClearAllOf(st) ==
    [ForEachRemove(st, 1) EXCEPT !.components = <<>>, !.nextId = 1]

\* the scale addComponent stores, in tenths (0.4)
PlacedScaleTenths == 4

\* addComponent reading the counter without advancing it
PlaceNewSameCounter(st, u, type, position, size) ==
    LET data == [id |-> ComponentId(st.nextId), type |-> type,
                 position |-> SnapPointToGrid(position, size),
                 rotation |-> 0, scale |-> PlacedScaleTenths]
        st1 == NewComponent(st, u, data)
    IN  [st1 EXCEPT !.components = MapSet(@, data.id, u),
                    !.canvas = @ \o <<ElementNode(u), ButtonNode(u)>>]

\* the body of addComponent once the definition is found: object u is the
\* CircuitComponent it constructs
PlaceNew(st, u, type, position, size) ==
    LET data == [id |-> ComponentId(st.nextId), type |-> type,
                 position |-> SnapPointToGrid(position, size),
                 rotation |-> 0, scale |-> PlacedScaleTenths]
        st1 == NewComponent([st EXCEPT !.nextId = @ + 1], u, data)
    IN  [st1 EXCEPT !.components = MapSet(@, data.id, u),
                    !.canvas = @ \o <<ElementNode(u), ButtonNode(u)>>]

\* addComponent without the registry lookup
AddComponentToUnchecked(st, type, position, size) ==
    PlaceNew(st, NewUid(st), type, position, size)

\* CircuitCanvas.addComponent(type, position)
AddComponentTo(st, type, position, size) ==
    IF ~HasDefinition(type) THEN st
    ELSE PlaceNew(st, NewUid(st), type, position, size)

(***************************************************************************)
(* Import and export.                                                      *)
(***************************************************************************)
\* CircuitComponent.getData() of every map value, in map order
ExportDataOf(st) ==
    [i \in 1..Len(st.components) |-> st.objs[st.components[i].obj].data]

\* the body of data.forEach placing the record the way addComponent places a
\* new instance: unrotated
ImportRecordAsAdd(st, u, rec) ==
    LET data == [id |-> rec.id, type |-> rec.type, position |-> rec.position,
                 rotation |-> 0, scale |-> rec.scale]
        st1 == NewComponent(st, u, data)
        st2 == [st1 EXCEPT !.components = MapSet(@, data.id, u),
                           !.canvas = @ \o <<ElementNode(u), ButtonNode(u)>>]
        idNum == IdNum(data.id)
    IN  IF ~idNum.nan /\ idNum.v >= st2.nextId
        THEN [st2 EXCEPT !.nextId = idNum.v + 1]
        ELSE st2

\* the body of data.forEach without the update of the id counter
ImportRecordNoAdvance(st, u, rec) ==
    LET data == [id |-> rec.id, type |-> rec.type, position |-> rec.position,
                 rotation |-> rec.rotation, scale |-> rec.scale]
        st1 == NewComponent(st, u, data)
    IN  [st1 EXCEPT !.components = MapSet(@, data.id, u),
                    !.canvas = @ \o <<ElementNode(u), ButtonNode(u)>>]

\* the body of data.forEach in importFromJSON for one known-type record,
\* constructing object u
ImportRecord(st, u, rec) ==
    LET data == [id |-> rec.id, type |-> rec.type, position |-> rec.position,
                 rotation |-> rec.rotation, scale |-> rec.scale]
        st1 == NewComponent(st, u, data)
        st2 == [st1 EXCEPT !.components = MapSet(@, data.id, u),
                           !.canvas = @ \o <<ElementNode(u), ButtonNode(u)>>]
        idNum == IdNum(data.id)
    IN  IF ~idNum.nan /\ idNum.v >= st2.nextId
        THEN [st2 EXCEPT !.nextId = idNum.v + 1]
        ELSE st2

\* data.forEach(...) from item i on. threw: an item raised a TypeError (a null
\* item has no .type), which ends the loop; full: the model has no object left
RECURSIVE ImportItems(_, _, _)
ImportItems(st, items, i) ==
    IF i > Len(items) THEN [st |-> st, threw |-> FALSE, full |-> FALSE]
    ELSE LET item == items[i]
         IN  IF item.shape = "null" THEN [st |-> st, threw |-> TRUE, full |-> FALSE]
             ELSE IF ~HasDefinition(item.type) THEN ImportItems(st, items, i + 1)
             ELSE IF ~HasFreeUid(st) THEN [st |-> st, threw |-> FALSE, full |-> TRUE]
             ELSE ImportItems(ImportRecord(st, NewUid(st), item), items, i + 1)

\* CircuitCanvas.importFromJSON(json). threw: the catch branch ran (alert)
ImportFromJSONOf(st, json) ==
    IF json.kind = "invalid"
    THEN [st |-> st, threw |-> TRUE, full |-> FALSE]
    ELSE IF json.kind = "object"
    THEN [st |-> ClearAllOf(st), threw |-> TRUE, full |-> FALSE]
    ELSE ImportItems(ClearAllOf(st), json.items, 1)

(***************************************************************************)
(* Inputs.                                                                 *)
(***************************************************************************)
UnknownType == "opamp"

\* types passed to addComponent
TypeInputs == {"resistor", UnknownType}

\* positions passed to addComponent
PositionInputs == {[x |-> 103, y |-> 58], [x |-> 0 - 10, y |-> 30]}

\* the type and the position placed where pointer events or the network are studied
PointerType == "nmos"

PointerPosition == [x |-> 103, y |-> 58]

\* ids of imported records
IdInputs == {ComponentId(1), ComponentId(2), <<"f", "o", "o">>}

ImportedPosition == [x |-> 45, y |-> 60]

ImportedRotation == 90

RecordInputs ==
    {[shape |-> "record", id |-> id, type |-> t, position |-> ImportedPosition,
      rotation |-> ImportedRotation, scale |-> PlacedScaleTenths] :
        id \in IdInputs, t \in {"resistor", UnknownType}}

NullItem == [shape |-> "null"]

ItemInputs == RecordInputs \cup {NullItem}

RECURSIVE SeqsUpTo(_, _)
SeqsUpTo(S, n) ==
    IF n = 0 THEN {<<>>}
    ELSE LET shorter == SeqsUpTo(S, n - 1)
         IN  shorter \cup {Append(q, x) : q \in {r \in shorter : Len(r) = n - 1}, x \in S}

\* the file contents given to importFromJSON, as JSON.parse sees them
JsonInputs ==
    {[kind |-> "invalid"], [kind |-> "object"]}
        \cup {[kind |-> "array", items |-> q] : q \in SeqsUpTo(ItemInputs, MaxImportLen)}

\* rotations an imported record may carry: importFromJSON stores them as read
ImportedRotations == {ImportedRotation, 45, 360, 0 - 90}

\* file contents holding one known-type record, where only the rotation varies
RotationJsonInputs ==
    {[kind |-> "array",
      items |-> <<[shape |-> "record", id |-> ComponentId(1), type |-> PointerType,
                   position |-> ImportedPosition, rotation |-> r,
                   scale |-> PlacedScaleTenths]>>] : r \in ImportedRotations}

\* file contents where only the ids of the records vary
IdJsonInputs ==
    {[kind |-> "invalid"]}
        \cup {[kind |-> "array", items |-> q] :
                 q \in SeqsUpTo({r \in RecordInputs : HasDefinition(r.type)}, MaxImportLen)}

(***************************************************************************)
(* Handlers.                                                               *)
(***************************************************************************)
\* the registered types the model places; only their assets are tracked
PlacedTypes == {t \in TypeInputs \cup {PointerType} : HasDefinition(t)}

\* what the last handler was, and whether it raised an alert
\* no palette item selected; PreviewManager.activeComponentType === null
NoType == ""

\* PreviewManager.previewElement === null
NoPreview == [shown |-> FALSE, type |-> NoType, asset |-> NoType, text |-> ""]

\* no preview build awaiting its asset
NoBuild == [running |-> FALSE, type |-> NoType]

\* the page as loaded: no palette item selected, isPlacing false,
\* lastClickTime 0, no preview
InitialControl ==
    [armed |-> NoType, isPlacing |-> FALSE, lastClickTime |-> 0,
     activeType |-> NoType, previewElement |-> NoPreview, isUpdating |-> FALSE,
     build |-> NoBuild]

\* Date.now() when the page has loaded, in ms (any value of at least 200)
StartTime == 1000

NoCommit == [some |-> FALSE, at |-> 0, picks |-> 0]

NoTally == [picks |-> 0, placed |-> 0, lastCommit |-> NoCommit]

\* no second CircuitCanvas constructed
NoPeer == [alive |-> FALSE, components |-> <<>>, nextId |-> 1]

\* the circuit editor not mounted
NoEditor == [mounted |-> FALSE]

\* nothing snapped yet
NoSnap == [value |-> 0, size |-> DefaultGridSize, results |-> <<>>]

\* localStorage.getItem('circuitComponents'): no entry, or its text
NoEntry == [present |-> FALSE, text |-> <<>>]

Entry(text) == [present |-> TRUE, text |-> text]

\* no ComponentLibrary constructed yet
NoLibrary == [state |-> "none", saved |-> <<>>]

Ran(op) == [op |-> op, alert |-> FALSE]

NoIssue == [ever |-> 0, sinceReset |-> 0]

\* the state a handler leaves, unreachable objects dropped
Commit(st, l, iss, size) ==
    LET c == Collect(st)
    IN  /\ components' = c.components
        /\ canvas' = c.canvas
        /\ objs' = c.objs
        /\ nextId' = c.nextId
        /\ svgCache' = c.svgCache
        /\ fetches' = c.fetches
        /\ gridSize' = size
        /\ issued' = iss
        /\ last' = l
        /\ peer' = c.peer
        /\ UNCHANGED <<storage, library, snap, pointerVars, editor>>

Max(a, b) == IF a >= b THEN a ELSE b

\* the numbers of the component_<n> keys of a map
KeyNumbers(m) == {IdNum(k).v : k \in {x \in MapKeys(m) : ~IdNum(x).nan}}

\* new CircuitCanvas('canvas'): empty map, counter 1, the grid at its default,
\* and preloadAllSvgs has asked for the asset of every type
Init ==
    /\ components = <<>>
    /\ canvas = <<>>
    /\ objs = [u \in {} |-> 0]
    /\ nextId = 1
    /\ gridSize = DefaultGridSize
    /\ svgCache = [t \in {} |-> ""]
    /\ fetches = {[type |-> t, obj |-> 0] : t \in PlacedTypes}
    /\ issued = NoIssue
    /\ last = Ran("init")
    /\ storage = NoEntry
    /\ library = NoLibrary
    /\ snap = NoSnap
    /\ ctl = InitialControl
    /\ now = StartTime
    /\ tally = NoTally
    /\ peer = NoPeer
    /\ editor = NoEditor

\* canvas.addComponent(type, position)
AddComponent(type, position) ==
    /\ HasFreeUid(St)
    /\ nextId <= MaxNextId
    /\ Commit(AddComponentTo(St, type, position, gridSize),
              Ran(IF HasDefinition(type) THEN "addComponent" ELSE "addComponent: no definition"),
              IF HasDefinition(type)
              THEN [ever |-> Max(issued.ever, nextId),
                    sinceReset |-> Max(issued.sinceReset, nextId)]
              ELSE issued,
              gridSize)

\* a click on the delete button of object u, which is on the canvas
DeleteButtonClick(u) ==
    /\ u \in ButtonsOn(canvas)
    /\ Commit(RemoveObject(St, u), Ran("deleteButton"), issued, gridSize)

\* canvas.removeComponent(id), called from outside the instance
RemoveComponentCall(id) ==
    /\ id \in IdInputs
    /\ Commit(RemoveComponent(St, id), Ran("removeComponent"), issued, gridSize)

\* the clear button: canvas.clearAll()
ClearAll ==
    /\ TRUE
    /\ Commit(ClearAllOf(St), Ran("clearAll"), [issued EXCEPT !.sinceReset = 0], gridSize)

\* the file picker: canvas.importFromJSON(content)
ImportFromJSON(json) ==
    LET r == ImportFromJSONOf(St, json)
    IN  /\ ~r.full
        /\ Commit(r.st,
                  [op |-> "importFromJSON", alert |-> r.threw],
                  IF json.kind = "invalid" THEN issued
                  ELSE [issued EXCEPT !.sinceReset = 0],
                  gridSize)

\* the export button or Ctrl+S: canvas.exportToJSON() downloads ExportDataOf
ExportToJSON ==
    /\ TRUE
    /\ Commit(St, Ran("exportToJSON"), issued, gridSize)

\* JSON.stringify of an integer, and JSON.parse of that text
NumberText(n) == IF n < 0 THEN <<"-">> \o Digits(0 - n) ELSE Digits(n)

ParseNumber(s) == ParseInt(s).v

\* JSON.stringify of a number given in tenths, and JSON.parse of that text
TenthsText(t) ==
    IF t % 10 = 0 THEN Digits(t \div 10)
    ELSE Digits(t \div 10) \o <<".">> \o Digits(t % 10)

ParseTenths(s) ==
    LET dot == {i \in 1..Len(s) : s[i] = "."}
    IN  IF dot = {} THEN 10 * ParseNumber(s)
        ELSE LET i == CHOOSE j \in dot : TRUE
             IN  10 * ParseNumber(SubSeq(s, 1, i - 1)) + ParseNumber(SubSeq(s, i + 1, Len(s)))

\* JSON.stringify(data, null, 2) of the exported array: per record, the
\* property values as they are written
StringifyRecords(data) ==
    [i \in DOMAIN data |->
        [id |-> data[i].id, type |-> data[i].type,
         x |-> NumberText(data[i].position.x), y |-> NumberText(data[i].position.y),
         rotation |-> NumberText(data[i].rotation), scale |-> TenthsText(data[i].scale)]]

\* JSON.parse of that text
ParseRecords(text) ==
    [kind |-> "array",
     items |-> [i \in DOMAIN text |->
        [shape |-> "record", id |-> text[i].id, type |-> text[i].type,
         position |-> [x |-> ParseNumber(text[i].x), y |-> ParseNumber(text[i].y)],
         rotation |-> ParseNumber(text[i].rotation), scale |-> ParseTenths(text[i].scale)]]]

\* the export button, then the file picker with the downloaded file
ExportThenImport ==
    LET r == ImportFromJSONOf(St, ParseRecords(StringifyRecords(ExportDataOf(St))))
    IN  /\ ~r.full
        /\ Commit(r.st, [op |-> "exportThenImport", alert |-> r.threw],
                  [issued EXCEPT !.sinceReset = 0], gridSize)

\* objs with the object u changed by f
WithObj(st, u, o) == [st EXCEPT !.objs = [w \in DOMAIN st.objs |-> IF w = u THEN o ELSE st.objs[w]]]

\* mousedown on the element of u: isDragging and the class 'selected' are set,
\* startPosition is a copy of the position
MouseDown(u) ==
    /\ u \in ElementsOn(canvas)
    /\ Commit(WithObj(St, u, [objs[u] EXCEPT !.selected = TRUE, !.start = objs[u].data.position]),
              Ran("mouseDown"), issued, gridSize)

\* how far the pointer is from where the drag began (clientX - dragStart.x, ...)
DragDeltas == {[x |-> 0 - 130, y |-> 0 - 130]}

\* instances are not dragged farther than this from the origin
MaxCoordinate == 120

\* mousemove on the document: every dragging instance moves to its start
\* position plus the delta, snapped to the cell size of the grid-size select
MouseMove(d) ==
    /\ \E u \in DOMAIN objs : objs[u].selected
    /\ \A u \in DOMAIN objs :
           objs[u].selected => /\ objs[u].start.x + d.x >= 0 - MaxCoordinate
                               /\ objs[u].start.y + d.y >= 0 - MaxCoordinate
    /\ Commit([St EXCEPT !.objs = [w \in DOMAIN objs |->
                   IF objs[w].selected
                   THEN [objs[w] EXCEPT !.data.position =
                            [x |-> SnapToGrid(objs[w].start.x + d.x, gridSize),
                             y |-> SnapToGrid(objs[w].start.y + d.y, gridSize)]]
                   ELSE objs[w]]],
              Ran("mouseMove"), issued, gridSize)

\* mouseup on the document: every dragging instance drops isDragging and 'selected'
MouseUp ==
    /\ \E u \in DOMAIN objs : objs[u].selected
    /\ Commit([St EXCEPT !.objs = [w \in DOMAIN objs |-> [objs[w] EXCEPT !.selected = FALSE]]],
              Ran("mouseUp"), issued, gridSize)

\* the JavaScript remainder a % b for b > 0: the sign of the result is the sign
\* of a
JsRem(a, b) == IF a >= 0 THEN a % b ELSE 0 - ((0 - a) % b)

\* CircuitComponent.rotate
RotateStep(rotation) == JsRem(rotation + 90, 360)

\* contextmenu on the element of u
Rotate(u) ==
    /\ u \in ElementsOn(canvas)
    /\ Commit(WithObj(St, u, [objs[u] EXCEPT !.data.rotation = RotateStep(@)]),
              Ran("rotate"), issued, gridSize)

\* document.querySelector('.placed-component.selected'): the first selected
\* element of the canvas in document order, 0 if there is none
FirstSelected(st) ==
    LET idx == {i \in 1..Len(st.canvas) :
                   st.canvas[i].kind = "g" /\ st.objs[st.canvas[i].obj].selected}
    IN  IF idx = {} THEN 0
        ELSE st.canvas[CHOOSE i \in idx : \A j \in idx : i <= j].obj

\* selectedComponent.parentElement.querySelector('.delete-button button'): the
\* button of the first delete-button node of the canvas, 0 if there is none
FirstDeleteButton(st) ==
    LET idx == {i \in 1..Len(st.canvas) : st.canvas[i].kind = "foreignObject"}
    IN  IF idx = {} THEN 0
        ELSE st.canvas[CHOOSE i \in idx : \A j \in idx : i <= j].obj

\* the object whose delete button the Delete/Backspace handler clicks
KeyDeleteTarget(st) ==
    IF FirstSelected(st) = 0 THEN 0 ELSE FirstDeleteButton(st)

\* keydown Delete or Backspace on the document (App.setupKeyboardShortcuts)
KeyDelete ==
    /\ TRUE
    /\ LET target == KeyDeleteTarget(St)
       IN  Commit(IF target = 0 THEN St ELSE RemoveObject(St, target),
                  Ran("keyDelete"), issued, gridSize)

\* change of the grid-size select: GridManager.setSize
SetGridSize(size) ==
    /\ size # gridSize
    /\ Commit(St, Ran("setGridSize"), issued, size)

(***************************************************************************)
(* The network answers a request.                                          *)
(***************************************************************************)
\* fetch rejects; or it resolves with a 2xx response, a 404 whose body is an
\* error page, or a 404 with an empty body
Outcomes == {"networkError", "ok", "notFound", "notFoundEmpty"}

FailedOutcomes == {"networkError", "notFound", "notFoundEmpty"}

\* response.text() of a resolved fetch
ResponseText(outcome) ==
    CASE outcome = "ok" -> SvgText
      [] outcome = "notFound" -> ErrorPageText
      [] outcome = "notFoundEmpty" -> EmptyText

\* SVGManager.loadSvgContent after its await, then the caller's continuation
SettleOf(st, f, outcome) ==
    LET st1 == [st EXCEPT !.fetches = @ \ {f}]
        st2 == IF outcome = "networkError" THEN st1
               ELSE [st1 EXCEPT !.svgCache =
                        [t \in DOMAIN st.svgCache \cup {f.type} |->
                            IF t = f.type THEN ResponseText(outcome) ELSE st.svgCache[t]]]
    IN  IF f.obj = 0 THEN st2
        ELSE WithObj(st2, f.obj,
                     [st.objs[f.obj] EXCEPT !.visual =
                        IF outcome = "networkError"
                        THEN LoadedVisual(f.type, TRUE, EmptyText)
                        ELSE LoadedVisual(f.type, FALSE, ResponseText(outcome))])

FetchSettle(f, outcome) ==
    /\ f \in fetches
    /\ Commit(SettleOf(St, f, outcome),
              [op |-> "fetchSettle", alert |-> FALSE, obj |-> f.obj, outcome |-> outcome],
              issued, gridSize)

(***************************************************************************)
(* Specifications.                                                         *)
(***************************************************************************)
\* the controller's public operations and the delete buttons, while the asset
\* requests are in flight
Next ==
    \/ \E t \in TypeInputs, p \in PositionInputs : AddComponent(t, p)
    \/ \E u \in Uids : DeleteButtonClick(u)
    \/ \E id \in IdInputs : RemoveComponentCall(id)
    \/ ClearAll
    \/ \E j \in JsonInputs : ImportFromJSON(j)
    \/ ExportToJSON

Spec == Init /\ [][Next]_vars

\* pointer and keyboard on the placed instances
NextPointer ==
    \/ AddComponent(PointerType, PointerPosition)
    \/ \E u \in Uids : DeleteButtonClick(u)
    \/ \E u \in Uids : MouseDown(u)
    \/ MouseUp
    \/ \E u \in Uids : Rotate(u)
    \/ KeyDelete
    \/ \E s \in GridSizes : SetGridSize(s)

SpecPointer == Init /\ [][NextPointer]_vars

\* placement and removal together with the network's answers
NextAsset ==
    \/ AddComponent(PointerType, PointerPosition)
    \/ \E u \in Uids : DeleteButtonClick(u)
    \/ ClearAll
    \/ \E f \in fetches, o \in Outcomes : FetchSettle(f, o)

SpecAsset == Init /\ [][NextAsset]_vars

\* placing on a grid whose size changes, rotating and exporting
NextPlace ==
    \/ \E t \in TypeInputs, p \in PositionInputs : AddComponent(t, p)
    \/ \E u \in Uids : DeleteButtonClick(u)
    \/ ClearAll
    \/ ExportToJSON
    \/ \E u \in Uids : Rotate(u)
    \/ \E s \in GridSizes : SetGridSize(s)

SpecPlace == Init /\ [][NextPlace]_vars

\* the operations that hand out, drop or bring in ids
NextIds ==
    \/ \E t \in TypeInputs \ {UnknownType} : AddComponent(t, PointerPosition)
    \/ \E u \in Uids : DeleteButtonClick(u)
    \/ \E id \in IdInputs : RemoveComponentCall(id)
    \/ ClearAll
    \/ \E j \in IdJsonInputs : ImportFromJSON(j)

SpecIds == Init /\ [][NextIds]_vars

\* placing instances of known and unknown types, and removing them
NextAdd ==
    \/ \E t \in TypeInputs, p \in PositionInputs : AddComponent(t, p)
    \/ \E u \in Uids : DeleteButtonClick(u)
    \/ \E id \in IdInputs : RemoveComponentCall(id)
    \/ ClearAll

SpecAdd == Init /\ [][NextAdd]_vars

\* placing, importing and rotating instances
NextRotate ==
    \/ AddComponent(PointerType, PointerPosition)
    \/ \E j \in RotationJsonInputs : ImportFromJSON(j)
    \/ \E u \in Uids : Rotate(u)
    \/ \E u \in Uids : DeleteButtonClick(u)

SpecRotate == Init /\ [][NextRotate]_vars

(***************************************************************************)
(* The palette, the canvas click handler and the preview manager.  The     *)
(* operators take the canvas state st and the controller fields c and      *)
(* return both.                                                            *)
(***************************************************************************)
DebounceMs == 200

TickMs == 100

MaxNow == 1600

MaxPicks == 3

\* the palette items
PaletteTypes == {PointerType, "resistor"}

PreviewNode == [kind |-> "preview", obj |-> 0]

Both(st, c) == [st |-> st, ctl |-> c]

\* hidePreview dropping the reference only
HidePreviewFieldOnly(st, c) ==
    Both(st, [c EXCEPT !.previewElement = NoPreview])

\* PreviewManager.hidePreview: every .component-preview leaves the canvas
HidePreview(st, c) ==
    Both([st EXCEPT !.canvas = SelectSeq(@, LAMBDA n : n.kind # "preview")],
         [c EXCEPT !.previewElement = NoPreview])

\* SVGManager.loadSvgContent called for its caching effect only: a type not in
\* the cache is fetched
Preload(st, type) ==
    IF type \in DOMAIN st.svgCache THEN st
    ELSE [st EXCEPT !.fetches = @ \cup {[type |-> type, obj |-> 0]}]

\* PreviewManager.setActiveComponent(type)
SetActiveComponent(st, c, type) ==
    LET h == HidePreview(st, [c EXCEPT !.activeType = type])
    IN  IF type # NoType /\ HasDefinition(type)
        THEN Both(Preload(h.st, type), h.ctl)
        ELSE h

\* CircuitCanvas.clearActiveComponent
ClearActiveComponent(st, c) == SetActiveComponent(st, [c EXCEPT !.armed = NoType], NoType)

\* the palette item listener
PaletteClickOf(st, c, type) ==
    IF c.isPlacing THEN Both(st, c)
    ELSE SetActiveComponent(st, [c EXCEPT !.armed = type], type)

\* the same listener without the lastClickTime check
ClickOutcomeNoDebounce(c, timestamp) ==
    IF c.isPlacing \/ c.armed = NoType THEN "idle"
    ELSE IF HasDefinition(c.armed) THEN "placed"
    ELSE "no definition"

\* the branch the canvas click listener takes for a click with
\* Date.now() = timestamp: dropped by the lastClickTime check, nothing armed,
\* or addComponent called (which places only a type with a definition)
ClickOutcome(c, timestamp) ==
    IF timestamp - c.lastClickTime < DebounceMs THEN "ignored"
    ELSE IF c.isPlacing \/ c.armed = NoType THEN "idle"
    ELSE IF HasDefinition(c.armed) THEN "placed"
    ELSE "no definition"

\* the canvas click listener for a click at position
CanvasClickOf(st, c, position, timestamp, size) ==
    LET outcome == ClickOutcome(c, timestamp)
        c1 == [c EXCEPT !.lastClickTime = timestamp]
    IN  CASE outcome = "ignored" -> Both(st, c)
          [] outcome = "idle" -> Both(st, c1)
          [] OTHER -> ClearActiveComponent(
                          AddComponentTo(st, c1.armed, SnapPointToGrid(position, size), size),
                          c1)

\* createPreviewElement(type, svgText), where svgText is the text loaded for
\* the type asset: the graphic is made of svgText alone
CreatePreviewElement(type, asset, text) ==
    [shown |-> TRUE, type |-> type, asset |-> asset, text |-> text]

\* updatePreviewAsync returning on a missing text without its finally block
FinishBuildNoFinally(st, c, asset, isNull, text) ==
    IF isNull \/ text = EmptyText THEN Both(st, [c EXCEPT !.build = NoBuild])
    ELSE Both([st EXCEPT !.canvas = Append(@, PreviewNode)],
              [c EXCEPT !.isUpdating = FALSE, !.build = NoBuild,
                        !.previewElement = CreatePreviewElement(c.activeType, asset, text)])

\* updatePreviewAsync after loadSvgContent, called for the type asset, has
\* resolved to text (isNull: to null); activeComponentType is read again
FinishBuild(st, c, asset, isNull, text) ==
    LET c1 == [c EXCEPT !.isUpdating = FALSE, !.build = NoBuild]
    IN  IF isNull \/ text = EmptyText THEN Both(st, c1)
        ELSE Both([st EXCEPT !.canvas = Append(@, PreviewNode)],
                  [c1 EXCEPT !.previewElement = CreatePreviewElement(c.activeType, asset, text)])

\* the canvas mousemove listener: updatePreviewSync, and updatePreviewAsync
\* when there is no preview element yet
PointerMoveOf(st, c) ==
    IF c.activeType = NoType \/ c.isUpdating \/ c.previewElement.shown THEN Both(st, c)
    ELSE IF ~HasDefinition(c.activeType) THEN Both(st, c)
    ELSE LET h == HidePreview(st, [c EXCEPT !.isUpdating = TRUE])
         IN  IF c.activeType \in DOMAIN st.svgCache
             THEN FinishBuild(h.st, h.ctl, c.activeType, FALSE, st.svgCache[c.activeType])
             ELSE Both(h.st, [h.ctl EXCEPT !.build = [running |-> TRUE, type |-> c.activeType]])

\* the fetch of the build in flight settles: loadSvgContent caches the text of
\* a response and returns it, or returns null when the fetch rejected
BuildSettleOf(st, c, outcome) ==
    IF outcome = "networkError" THEN FinishBuild(st, c, c.build.type, TRUE, EmptyText)
    ELSE FinishBuild([st EXCEPT !.svgCache =
                         [t \in DOMAIN st.svgCache \cup {c.build.type} |->
                             IF t = c.build.type THEN ResponseText(outcome) ELSE st.svgCache[t]]],
                     c, c.build.type, FALSE, ResponseText(outcome))

\* the state a handler leaves, with the controller fields, the clock and the history
CommitWith(b, l, iss, newNow, newTally) ==
    LET st == Collect(b.st)
    IN  /\ components' = st.components
        /\ canvas' = st.canvas
        /\ objs' = st.objs
        /\ nextId' = st.nextId
        /\ svgCache' = st.svgCache
        /\ fetches' = st.fetches
        /\ issued' = iss
        /\ last' = l
        /\ ctl' = b.ctl
        /\ now' = newNow
        /\ tally' = newTally
        /\ peer' = st.peer
        /\ UNCHANGED <<gridSize, storage, library, snap, editor>>

\* a click on a palette item
PaletteClick(type) ==
    /\ tally.picks < MaxPicks
    /\ CommitWith(PaletteClickOf(St, ctl, type), Ran("paletteClick"), issued, now,
                  [tally EXCEPT !.picks = @ + 1])

\* a click on the canvas
CanvasClick(position) ==
    LET outcome == ClickOutcome(ctl, now)
    IN  /\ outcome = "placed" => (HasFreeUid(St) /\ nextId <= MaxNextId)
        /\ CommitWith(CanvasClickOf(St, ctl, position, now, gridSize),
                      [op |-> "canvasClick", alert |-> FALSE, outcome |-> outcome],
                      IF outcome = "placed"
                      THEN [ever |-> Max(issued.ever, nextId),
                            sinceReset |-> Max(issued.sinceReset, nextId)]
                      ELSE issued,
                      now,
                      IF outcome = "placed"
                      THEN [tally EXCEPT !.placed = @ + 1,
                                         !.lastCommit = [some |-> TRUE, at |-> now,
                                                         picks |-> tally.picks]]
                      ELSE tally)

\* time passes
Tick ==
    /\ now + TickMs <= MaxNow
    /\ CommitWith(Both(St, ctl), Ran("tick"), issued, now + TickMs, tally)

\* Escape: the palette selection is dropped and clearPreview is dispatched
EscapeKey ==
    /\ TRUE
    /\ CommitWith(ClearActiveComponent(St, ctl), Ran("escape"), issued, now, tally)

\* the pointer moves over the canvas
PointerMove ==
    /\ TRUE
    /\ CommitWith(PointerMoveOf(St, ctl), Ran("pointerMove"), issued, now, tally)

\* the pointer leaves the canvas
PointerLeave ==
    /\ TRUE
    /\ CommitWith(HidePreview(St, ctl), Ran("pointerLeave"), issued, now, tally)

\* the asset request of the preview build in flight settles
BuildSettle(outcome) ==
    /\ ctl.build.running
    /\ CommitWith(BuildSettleOf(St, ctl, outcome), Ran("buildSettle"), issued, now, tally)

\* picking from the palette, moving over and clicking on the canvas, while
\* time passes and asset requests settle
NextClick ==
    \/ PaletteClick(PointerType)
    \/ CanvasClick(PointerPosition)
    \/ Tick
    \/ EscapeKey
    \/ PointerMove
    \/ PointerLeave
    \/ \E o \in Outcomes : BuildSettle(o)
    \/ \E u \in Uids : DeleteButtonClick(u)

SpecClick == Init /\ [][NextClick]_vars

\* arming, switching and clearing the type while the pointer moves over the
\* canvas and the asset requests of the preview builds settle
NextPreview ==
    \/ \E t \in PaletteTypes : PaletteClick(t)
    \/ CanvasClick(PointerPosition)
    \/ EscapeKey
    \/ PointerMove
    \/ PointerLeave
    \/ \E o \in Outcomes : BuildSettle(o)

SpecPreview == Init /\ [][NextPreview]_vars

\* the same, where an asset request in flight settles at some time
SpecPreviewLive == SpecPreview /\ WF_vars(\E o \in Outcomes : BuildSettle(o))

\* an instance is being dragged
Dragging == \E w \in DOMAIN objs : objs[w].selected

\* building a diagram by placing, dragging, rotating and removing, and
\* passing it through export and import; while the button is held on an
\* instance the pointer only moves
NextRoundTrip ==
    \/ ~Dragging /\ AddComponent(PointerType, PointerPosition)
    \/ \E u \in Uids : ~Dragging /\ MouseDown(u)
    \/ \E d \in DragDeltas : MouseMove(d)
    \/ MouseUp
    \/ \E u \in Uids : ~Dragging /\ Rotate(u)
    \/ \E u \in Uids : ~Dragging /\ DeleteButtonClick(u)
    \/ ~Dragging /\ ExportThenImport

SpecRoundTrip == Init /\ [][NextRoundTrip]_vars

(***************************************************************************)
(* The React circuit editor (CircuitEditor) with its CircuitDiagram.  An   *)
(* instance is known by its id, a <g> by the number of its creation; each  *)
(* render fetches the symbol file anew.                                    *)
(***************************************************************************)
\* instances the editor creates
MaxInstances == 2

\* <g> elements the renders create
MaxGroups == 3

NoSelection == 0

\* the editor after its first effect: new CircuitDiagram(svgRef.current)
MountedEditor ==
    [mounted |-> TRUE, components |-> <<>>, svg |-> <<>>, renders |-> {},
     selected |-> NoSelection, instances |-> 0, groups |-> 0]

InstanceIds(e) == {e.components[i].id : i \in DOMAIN e.components}

\* Element.remove() of group g
RemoveGroup(svg, g) == SelectSeq(svg, LAMBDA x : x # g)

\* component.render(svg, id) up to its await: createGroup, then
\* embedSVGContent waits for the fetch
StartRender(e, id, kind) ==
    [e EXCEPT !.groups = @ + 1,
              !.renders = @ \cup {[inst |-> id, group |-> e.groups + 1, kind |-> kind]}]

\* CircuitDiagram.removeComponent(id)
DiagramRemoveComponent(e, id) ==
    IF id \in InstanceIds(e)
    THEN LET i == CHOOSE j \in DOMAIN e.components : e.components[j].id = id
         IN  [e EXCEPT !.svg = RemoveGroup(@, e.components[i].element),
                       !.components = SelectSeq(@, LAMBDA c : c.id # id)]
    ELSE e

\* CircuitDiagram.clear()
DiagramClear(e) ==
    [e EXCEPT !.svg = SelectSeq(@, LAMBDA g :
                          \A i \in DOMAIN e.components : e.components[i].element # g),
              !.components = <<>>]

\* renderFromSVG after the await: the group, filled with the symbol or the
\* fallback, is appended to the svg; then the caller goes on, with the push of
\* CircuitDiagram.addComponent or with instance.element = newElement of
\* updateSelectedComponent, where instance is the object found before the await
FinishRender(e, r) ==
    LET e1 == [e EXCEPT !.renders = @ \ {r}, !.svg = Append(@, r.group)]
    IN  IF r.kind = "add"
        THEN [e1 EXCEPT !.components = Append(@, [id |-> r.inst, element |-> r.group])]
        ELSE [e1 EXCEPT !.components =
                 [i \in DOMAIN @ |-> IF @[i].id = r.inst
                                     THEN [@[i] EXCEPT !.element = r.group] ELSE @[i]]]

EditorStep(op, e) ==
    /\ editor' = e
    /\ last' = Ran(op)
    /\ UNCHANGED <<canvasVars, storage, library, snap, pointerVars, peer>>

\* the editor mounts
EditorMount ==
    /\ ~editor.mounted
    /\ EditorStep("editorMount", MountedEditor)

\* a canvas click with the place tool: circuitDiagram.addComponent(component, id)
EditorPlaceClick ==
    /\ editor.mounted
    /\ editor.instances < MaxInstances
    /\ editor.groups < MaxGroups
    /\ EditorStep("editorPlace",
                  StartRender([editor EXCEPT !.instances = @ + 1], editor.instances + 1, "add"))

\* a canvas click with the select tool on instance id
EditorSelectClick(id) ==
    /\ editor.mounted
    /\ id \in InstanceIds(editor)
    /\ EditorStep("editorSelect", [editor EXCEPT !.selected = id])

\* Delete key or delete button: deleteSelectedComponent
EditorDelete ==
    /\ editor.mounted
    /\ editor.selected # NoSelection
    /\ EditorStep("editorDelete",
                  [DiagramRemoveComponent(editor, editor.selected) EXCEPT !.selected = NoSelection])

\* the clear button: clearCircuit
EditorClear ==
    /\ editor.mounted
    /\ EditorStep("editorClear", [DiagramClear(editor) EXCEPT !.selected = NoSelection])

\* the update button: updateSelectedComponent up to its await
EditorUpdate ==
    /\ editor.mounted
    /\ editor.selected \in InstanceIds(editor)
    /\ editor.groups < MaxGroups
    /\ LET i == CHOOSE j \in DOMAIN editor.components :
                    editor.components[j].id = editor.selected
       IN  EditorStep("editorUpdate",
                      StartRender([editor EXCEPT !.svg = RemoveGroup(@, editor.components[i].element)],
                                  editor.selected, "update"))

\* the fetch of a render settles, with the symbol or without
EditorRenderSettle(r) ==
    /\ editor.mounted
    /\ r \in editor.renders
    /\ EditorStep("editorRenderSettle", FinishRender(editor, r))

EditorRenders ==
    {[inst |-> i, group |-> g, kind |-> k] :
        i \in 1..MaxInstances, g \in 1..MaxGroups, k \in {"add", "update"}}

NextEditor ==
    \/ EditorMount
    \/ EditorPlaceClick
    \/ \E id \in 1..MaxInstances : EditorSelectClick(id)
    \/ EditorDelete
    \/ EditorClear
    \/ EditorUpdate
    \/ \E r \in EditorRenders : EditorRenderSettle(r)

SpecEditor == Init /\ [][NextEditor]_vars

(***************************************************************************)
(* Two CircuitCanvas controllers on one page.  Of the second one the model *)
(* keeps its collection, as the ids in map order, and its id counter.      *)
(***************************************************************************)
\* new CircuitCanvas(...) a second time: its listener is added to document
NewPeerCanvas ==
    /\ ~peer.alive
    /\ Commit([St EXCEPT !.peer = [alive |-> TRUE, components |-> <<>>, nextId |-> 1]],
              Ran("newCircuitCanvas"), issued, gridSize)

\* addComponent of a registered type on the second controller
PeerAddComponent ==
    /\ peer.alive
    /\ peer.nextId <= MaxNextId
    /\ Len(peer.components) < MaxObjects
    /\ Commit([St EXCEPT !.peer.components =
                            IF \E i \in DOMAIN @ : @[i] = ComponentId(peer.nextId) THEN @
                            ELSE Append(@, ComponentId(peer.nextId)),
                        !.peer.nextId = @ + 1],
              Ran("peer addComponent"), issued, gridSize)

\* a click on the delete button of the second controller's instance id:
\* CircuitComponent.remove() dispatches componentRemoved on document
PeerDeleteButtonClick(id) ==
    /\ \E i \in DOMAIN peer.components : peer.components[i] = id
    /\ Commit(ComponentRemoved(St, id), Ran("peer deleteButton"), issued, gridSize)

\* components.forEach(component => component.remove()) of the second
\* controller from entry i on
RECURSIVE PeerForEachRemove(_, _)
PeerForEachRemove(st, i) ==
    IF i > Len(st.peer.components) THEN st
    ELSE LET id == st.peer.components[i]
             st2 == ComponentRemoved(st, id)
         IN  IF i <= Len(st2.peer.components) /\ st2.peer.components[i] = id
             THEN PeerForEachRemove(st2, i + 1)
             ELSE PeerForEachRemove(st2, i)

\* clearAll() of the second controller
PeerClearAll ==
    /\ peer.alive
    /\ Commit([PeerForEachRemove(St, 1) EXCEPT !.peer.components = <<>>, !.peer.nextId = 1],
              Ran("peer clearAll"), issued, gridSize)

\* both controllers place and remove instances
NextPeers ==
    \/ NewPeerCanvas
    \/ AddComponent(PointerType, PointerPosition)
    \/ \E u \in Uids : DeleteButtonClick(u)
    \/ ClearAll
    \/ PeerAddComponent
    \/ \E id \in {ComponentId(n) : n \in 1..MaxNextId} : PeerDeleteButtonClick(id)
    \/ PeerClearAll

SpecPeers == Init /\ [][NextPeers]_vars

(***************************************************************************)
(* Snapping on its own: a value and a cell size are drawn, snapToGrid is   *)
(* applied to the value and then to its own result.                        *)
(***************************************************************************)
MaxSnapValue == 45

MaxSnapCalls == 2

SnapValues == (0 - MaxSnapValue)..MaxSnapValue

\* cell sizes: the grid sizes and a finer one
SnapSizes == GridSizes \cup {10}

InitSnap ==
    /\ Init!1 /\ Init!2 /\ Init!3 /\ Init!4 /\ Init!5 /\ Init!6 /\ Init!7 /\ Init!8 /\ Init!9
    /\ Init!10 /\ Init!11 /\ Init!13 /\ Init!14 /\ Init!15 /\ Init!16 /\ Init!17
    /\ snap \in {[value |-> v, size |-> c, results |-> <<>>] : v \in SnapValues, c \in SnapSizes}

\* gridManager.snapToGrid(value, size), then again on what it returned
SnapToGridCall ==
    /\ Len(snap.results) < MaxSnapCalls
    /\ snap' = [snap EXCEPT !.results =
                   Append(@, SnapToGrid(IF @ = <<>> THEN snap.value ELSE @[Len(@)], snap.size))]
    /\ last' = Ran("snapToGrid")
    /\ UNCHANGED <<canvasVars, storage, library, pointerVars, pageVars>>

NextSnap == SnapToGridCall

SpecSnap == InitSnap /\ [][NextSnap]_vars

(***************************************************************************)
(* The preset library (lib/circuit-components.ts) and its localStorage     *)
(* entry.  A JSON text is the sequence of its tokens; a "member" token is  *)
(* one "name": {...} pair of the top-level object.                         *)
(***************************************************************************)
MaxPresets == 2

OpenBrace == [tok |-> "{"]
CloseBrace == [tok |-> "}"]
Comma == [tok |-> ","]
Member(name, data) == [tok |-> "member", name |-> name, data |-> data]

\* an assignment that always adds a key
ObjSetAppend(obj, name, data) == Append(obj, [name |-> name, data |-> data])

\* obj[name] = data: an own key keeps its place, a new key goes last
ObjSet(obj, name, data) ==
    IF \E i \in 1..Len(obj) : obj[i].name = name
    THEN [i \in 1..Len(obj) |-> IF obj[i].name = name THEN [name |-> name, data |-> data] ELSE obj[i]]
    ELSE Append(obj, [name |-> name, data |-> data])

\* delete obj[name]
ObjDelete(obj, name) == SelectSeq(obj, LAMBDA e : e.name # name)

\* { ...a, ...b }
RECURSIVE Spread(_, _)
Spread(a, b) ==
    IF b = <<>> THEN a ELSE Spread(ObjSet(a, Head(b).name, Head(b).data), Tail(b))

\* a string-valued property: a string, or undefined
Str(s) == [defined |-> TRUE, s |-> s]

Undefined == [defined |-> FALSE, s |-> ""]

\* data.value: undefined when the object has no such property
ValueOf(data) == IF "value" \in DOMAIN data THEN data.value ELSE Undefined

\* JSON.stringify of one ComponentData: a property whose value is undefined
\* is left out of the text
StringifyData(data) ==
    IF ValueOf(data).defined THEN data
    ELSE [f \in DOMAIN data \ {"value"} |-> data[f]]

\* JSON.stringify of a name -> ComponentData object
RECURSIVE StringifyMembers(_)
StringifyMembers(obj) ==
    IF obj = <<>> THEN <<>>
    ELSE IF Len(obj) = 1 THEN <<Member(obj[1].name, StringifyData(obj[1].data))>>
    ELSE <<Member(obj[1].name, StringifyData(obj[1].data)), Comma>> \o StringifyMembers(Tail(obj))

JSONStringify(obj) == <<OpenBrace>> \o StringifyMembers(obj) \o <<CloseBrace>>

\* a parser that stops at the end of a text cut short and keeps what it read
RECURSIVE ParseMembersLenient(_, _, _)
ParseMembersLenient(text, acc, wantMember) ==
    IF text = <<>> THEN [threw |-> FALSE, value |-> acc]
    ELSE IF Head(text).tok = "member"
         THEN ParseMembersLenient(Tail(text), ObjSet(acc, Head(text).name, Head(text).data), FALSE)
    ELSE ParseMembersLenient(Tail(text), acc, wantMember)

\* the members of an object text after its opening brace; wantMember says
\* whether a member (rather than a comma or the closing brace) must come next
RECURSIVE ParseMembers(_, _, _)
ParseMembers(text, acc, wantMember) ==
    IF text = <<>> THEN [threw |-> TRUE, value |-> <<>>]
    ELSE IF Head(text).tok = "member" /\ wantMember
         THEN ParseMembers(Tail(text), ObjSet(acc, Head(text).name, Head(text).data), FALSE)
    ELSE IF Head(text) = Comma /\ ~wantMember /\ acc # <<>>
         THEN IF Tail(text) # <<>> /\ Head(Tail(text)).tok = "member"
              THEN ParseMembers(Tail(text), acc, TRUE)
              ELSE [threw |-> TRUE, value |-> <<>>]
    ELSE IF Head(text) = CloseBrace /\ Tail(text) = <<>> /\ (~wantMember \/ acc = <<>>)
         THEN [threw |-> FALSE, value |-> acc]
    ELSE [threw |-> TRUE, value |-> <<>>]

\* JSON.parse accepting an object text cut short
JSONParseLenient(text) ==
    IF text # <<>> /\ Head(text) = OpenBrace
    THEN ParseMembersLenient(Tail(text), <<>>, TRUE)
    ELSE [threw |-> TRUE, value |-> <<>>]

\* JSON.parse of a text: the object, or a SyntaxError
JSONParse(text) ==
    IF text # <<>> /\ Head(text) = OpenBrace
    THEN ParseMembers(Tail(text), <<>>, TRUE)
    ELSE [threw |-> TRUE, value |-> <<>>]

\* ComponentLibrary.loadFromStorage: no entry and the empty string give {}
LoadFromStorage(entry) ==
    IF entry.present /\ entry.text # <<>>
    THEN JSONParse(entry.text)
    ELSE [threw |-> FALSE, value |-> <<>>]

\* CircuitComponent.toData (the timestamp left out)
ToData(component) ==
    [type |-> component.type, x |-> component.x, y |-> component.y,
     rotation |-> component.rotation, value |-> component.value]

\* data.x, data.y, data.rotation: undefined when the object has no such property
HasProp(data, f) == f \in DOMAIN data

\* the classes loadComponent can construct, and the default of their value
\* parameter (the transistors have none)
LoadableTypes == {"Resistor", "Inductor", "Capacitor", "CMOSN", "CMOSP"}

DefaultValue(type) ==
    CASE type = "Resistor" -> Str("R")
      [] type = "Inductor" -> Str("L")
      [] type = "Capacitor" -> Str("C")
      [] OTHER -> Undefined

\* savedComponents[name]: the data, or absent
ObjHas(obj, name) == \E i \in 1..Len(obj) : obj[i].name = name

ObjGet(obj, name) == obj[CHOOSE i \in 1..Len(obj) : obj[i].name = name].data

\* nothing constructed
Null == [null |-> TRUE]

\* new Resistor(data.x, data.y, data.rotation, data.value) and the like: an
\* argument that is undefined takes the parameter's default
Construct(data) ==
    [null |-> FALSE,
     type |-> data.type,
     x |-> IF HasProp(data, "x") THEN data.x ELSE 0,
     y |-> IF HasProp(data, "y") THEN data.y ELSE 0,
     rotation |-> IF HasProp(data, "rotation") THEN data.rotation ELSE 0,
     value |-> IF ValueOf(data).defined THEN ValueOf(data) ELSE DefaultValue(data.type)]

\* ComponentLibrary.loadComponent
LoadComponent(obj, name) ==
    IF ~ObjHas(obj, name) THEN Null
    ELSE IF HasProp(ObjGet(obj, name), "type") /\ ObjGet(obj, name).type \in LoadableTypes
         THEN Construct(ObjGet(obj, name))
    ELSE Null

\* ComponentLibrary.listComponents
ListComponents(obj) == [i \in 1..Len(obj) |-> obj[i].name]

PresetNames == {"amp", "filter"}

PresetComponents ==
    {[type |-> "Resistor", x |-> 100, y |-> 50, rotation |-> 0, value |-> Str("1k")],
     [type |-> "CMOSN", x |-> 20, y |-> 40, rotation |-> 90, value |-> Undefined]}

\* texts JSON.parse rejects: the empty text, an object cut short, a trailing comma
MalformedTexts ==
    {<<>>, <<OpenBrace>>}
        \cup {<<OpenBrace, Member(n, StringifyData(ToData(c)))>> :
                 n \in PresetNames, c \in PresetComponents}
        \cup {<<OpenBrace, Member(n, StringifyData(ToData(c))), Comma, CloseBrace>> :
                 n \in PresetNames, c \in PresetComponents}

\* a preset written by hand or by another program: importComponents takes any
\* object, so the type need not be a class loadComponent knows
ForeignData == [type |-> "OpAmp", x |-> 60, y |-> 80, rotation |-> 0, value |-> Str("U1")]

ImportTexts ==
    {JSONStringify(<<[name |-> n, data |-> ToData(c)]>>) : n \in PresetNames, c \in PresetComponents}
        \cup {JSONStringify(<<[name |-> "amp", data |-> ForeignData]>>)}
        \cup MalformedTexts

\* what a library call returned
Returned(op, value) == [op |-> op, alert |-> FALSE, returned |-> value]

LibReturn(l, newLibrary, newStorage) ==
    /\ library' = newLibrary
    /\ storage' = newStorage
    /\ last' = l
    /\ UNCHANGED <<canvasVars, snap, pointerVars, pageVars>>

LibStep(op, newLibrary, newStorage) ==
    /\ library' = newLibrary
    /\ storage' = newStorage
    /\ last' = Ran(op)
    /\ UNCHANGED <<canvasVars, snap, pointerVars, pageVars>>

\* new ComponentLibrary()
NewComponentLibrary ==
    /\ TRUE
    /\ LET r == LoadFromStorage(storage)
       IN  LibStep("newComponentLibrary",
                IF r.threw THEN [state |-> "threw", saved |-> <<>>]
                           ELSE [state |-> "ready", saved |-> r.value],
                storage)

\* library.saveComponent(name, component)
SaveComponent(name, component) ==
    /\ library.state = "ready"
    /\ Len(ObjSet(library.saved, name, ToData(component))) <= MaxPresets
    /\ LET saved == ObjSet(library.saved, name, ToData(component))
       IN  LibReturn(Returned("saveComponent", ToData(component)),
                     [library EXCEPT !.saved = saved], Entry(JSONStringify(saved)))

\* deleteComponent without the write back
DeleteComponentUnsaved(name) ==
    /\ library.state = "ready"
    /\ LET saved == ObjDelete(library.saved, name)
       IN  LibStep("deleteComponent", [library EXCEPT !.saved = saved], storage)

\* library.deleteComponent(name)
DeleteComponent(name) ==
    /\ library.state = "ready"
    /\ LET saved == ObjDelete(library.saved, name)
       IN  LibStep("deleteComponent", [library EXCEPT !.saved = saved], Entry(JSONStringify(saved)))

\* library.importComponents(jsonString)
ImportComponents(text) ==
    /\ library.state = "ready"
    /\ LET r == JSONParse(text)
           saved == Spread(library.saved, r.value)
       IN  /\ Len(saved) <= MaxPresets
           /\ IF r.threw
              THEN LibReturn(Returned("importComponents", FALSE), library, storage)
              ELSE LibReturn(Returned("importComponents", TRUE),
                             [library EXCEPT !.saved = saved], Entry(JSONStringify(saved)))

\* the stored text loses its tail (a write cut short, or the entry edited by hand)
StorageTruncate ==
    /\ storage.present
    /\ storage.text # <<>>
    /\ LibStep("storageTruncate", library, Entry(SubSeq(storage.text, 1, Len(storage.text) - 1)))

\* localStorage.removeItem('circuitComponents') / site data cleared
StorageRemove ==
    /\ storage.present
    /\ LibStep("storageRemove", library, NoEntry)

NextLib ==
    \/ NewComponentLibrary
    \/ \E n \in PresetNames, c \in PresetComponents : SaveComponent(n, c)
    \/ \E n \in PresetNames : DeleteComponent(n)
    \/ \E t \in ImportTexts : ImportComponents(t)
    \/ StorageTruncate
    \/ StorageRemove

SpecLib == Init /\ [][NextLib]_vars

(***************************************************************************)
(* Claims.                                                                 *)
(***************************************************************************)
\* the objects whose element and delete button are both on the canvas
Attached(cv) == ElementsOn(cv) \cap ButtonsOn(cv)

\* C1: at every observation point an instance's visual group and delete button
\* are attached to the canvas if and only if the instance is in the collection,
\* so the number of placed groups equals the collection size.
C1_VisualsMatchCollection ==
    /\ ElementsOn(canvas) = MapObjs(components)
    /\ ButtonsOn(canvas) = MapObjs(components)
    /\ Cardinality(ElementsOn(canvas)) = Len(components)

\* C2: removeComponent(id) with an id of the collection detaches that instance's
\* visual and removes the instance from the collection; with an id that is not
\* in the collection it changes nothing.
C2_RemoveComponentDetaches ==
    [][\A id \in IdInputs :
          RemoveComponentCall(id) =>
              IF MapHas(components, id)
              THEN /\ ~MapHas(components', id)
                   /\ MapGet(components, id) \notin ElementsOn(canvas')
                   /\ MapGet(components, id) \notin ButtonsOn(canvas')
              ELSE UNCHANGED <<components, canvas, objs, nextId>>]_vars

\* the import content does not match the export shape
Malformed(json) ==
    \/ json.kind # "array"
    \/ \E i \in 1..Len(json.items) : json.items[i].shape = "null"

\* C3: importFromJSON of content that does not match the export shape raises
\* an alert and leaves the collection, the canvas children and the id counter
\* exactly as they were.
C3_MalformedImportChangesNothing ==
    [][\A j \in JsonInputs :
          (ImportFromJSON(j) /\ Malformed(j)) =>
              /\ last'.alert
              /\ UNCHANGED <<components, canvas, objs, nextId>>]_vars

\* what exportToJSON downloads in the current state
ExportData == ExportDataOf(St)

\* rotations a caller might ask for
RotationInputs == {0, 90}

\* C4 as stated: addComponent on an empty diagram, then export, yields exactly
\* one record whose type, position and rotation equal the inputs.
C4_ExportReproducesInputs ==
    [][\A t \in TypeInputs, p \in PositionInputs, r \in RotationInputs :
          (AddComponent(t, p) /\ HasDefinition(t) /\ components = <<>> /\ canvas = <<>>) =>
              /\ Len(ExportData') = 1
              /\ ExportData'[1].type = t
              /\ ExportData'[1].position = p
              /\ ExportData'[1].rotation = r]_vars

\* v is a multiple of size nearest to w
NearestMultiple(v, w, size) ==
    /\ v % size = 0
    /\ 2 * (v - w) <= size
    /\ 2 * (w - v) <= size

\* C4 amended: addComponent on an empty diagram, then export, yields exactly one
\* record; its type is the input type, its position is the input position
\* snapped to the grid in force (each coordinate a nearest multiple of the cell
\* size), and its rotation is 0.
C4_ExportReproducesSnappedInputs ==
    [][\A t \in TypeInputs, p \in PositionInputs :
          (AddComponent(t, p) /\ HasDefinition(t) /\ components = <<>> /\ canvas = <<>>) =>
              /\ Len(ExportData') = 1
              /\ ExportData'[1].type = t
              /\ NearestMultiple(ExportData'[1].position.x, p.x, gridSize)
              /\ NearestMultiple(ExportData'[1].position.y, p.y, gridSize)
              /\ ExportData'[1].rotation = 0]_vars

\* C4 witness: an instance placed on an empty diagram off the grid of size 30
\* has been exported
C4_Witness ==
    /\ last.op = "exportToJSON"
    /\ gridSize = 30
    /\ Len(ExportData) = 1
    /\ ExportData[1].id = ComponentId(1)
    /\ ExportData[1].position = [x |-> 90, y |-> 60]
    /\ ExportData[1].rotation = 0

\* the ids of the instances of the collection are pairwise distinct
DistinctIds(m, os) ==
    \A i, j \in 1..Len(m) : i # j => os[m[i].obj].data.id # os[m[j].obj].data.id

\* the id addComponent hands out in the step from the current state (a step
\* that leaves last.op = "addComponent" is an addComponent that found the
\* definition and placed an instance)
HandedOut == objs'[NewUid(St)].data.id

\* C5 as stated: the ids of the collection are pairwise distinct, and every id
\* handed out by addComponent has a number strictly greater than the number of
\* every id handed out earlier in the diagram, across add, remove, clearAll and
\* import.
C5_IdsDistinctAndMonotonic ==
    [][/\ DistinctIds(components', objs')
       /\ (last'.op = "addComponent") =>
              /\ ~IdNum(HandedOut).nan
              /\ IdNum(HandedOut).v > issued.ever]_vars

\* C5 amended: the ids of the collection are pairwise distinct; every id handed
\* out by addComponent is the id of no instance of the collection, and its
\* number is strictly greater than the number of every id handed out since the
\* counter was last reset (by clearAll or by an import that parsed) and than the
\* number of every id of the collection.
C5_IdsDistinctAndMonotonicSinceReset ==
    [][/\ DistinctIds(components', objs')
       /\ (last'.op = "addComponent") =>
              /\ ~MapHas(components, HandedOut)
              /\ ~IdNum(HandedOut).nan
              /\ IdNum(HandedOut).v > issued.sinceReset
              /\ \A n \in KeyNumbers(components) : IdNum(HandedOut).v > n]_vars

\* C5 witness: an id handed out after a reset, smaller than one handed out before it
C5_Witness ==
    /\ last.op = "addComponent"
    /\ issued.sinceReset = 1
    /\ issued.ever >= 2
    /\ MapHas(components, ComponentId(1))

\* C6: if the asset fetch of a placed instance fails (network error or a non-2xx
\* response), the instance is in the collection and its visual ends up being
\* the fallback rectangle labelled with the type's display name.
C6_FailedFetchShowsFallback ==
    (last.op = "fetchSettle" /\ last.outcome \in FailedOutcomes /\ last.obj \in MapObjs(components)) =>
        objs[last.obj].visual = CreateFallbackElement(objs[last.obj].data.type)

\* the selected instances of the canvas
SelectedOn(cv, os) == {u \in ElementsOn(cv) : os[u].selected}

\* C7: Delete or Backspace while a placed instance is selected removes exactly
\* that instance (visual, delete button and collection entry) and leaves every
\* other instance in place.
C7_DeleteKeyRemovesSelected ==
    [][\A u \in Uids :
          (KeyDelete /\ SelectedOn(canvas, objs) = {u}) =>
              /\ u \notin ElementsOn(canvas') \cup ButtonsOn(canvas') \cup MapObjs(components')
              /\ ElementsOn(canvas') = ElementsOn(canvas) \ {u}
              /\ ButtonsOn(canvas') = ButtonsOn(canvas) \ {u}
              /\ MapObjs(components') = MapObjs(components) \ {u}]_vars

\* the records of an array whose type the registry knows, as instance data
KnownRecords(items) ==
    LET known == SelectSeq(items, LAMBDA r : HasDefinition(r.type))
    IN  [i \in 1..Len(known) |->
            [id |-> known[i].id, type |-> known[i].type, position |-> known[i].position,
             rotation |-> known[i].rotation, scale |-> known[i].scale]]

\* an array of records (no null item) with pairwise distinct ids, some of a
\* type the registry does not know
SnapshotWithUnknown(json) ==
    /\ json.kind = "array"
    /\ \A i \in 1..Len(json.items) : json.items[i].shape = "record"
    /\ \A i, j \in 1..Len(json.items) : i # j => json.items[i].id # json.items[j].id
    /\ \E i \in 1..Len(json.items) : ~HasDefinition(json.items[i].type)

\* C9: importing a snapshot with records of unknown type raises no alert and
\* yields a diagram holding exactly the known-type records, each in the
\* collection and on the canvas; what the diagram held before is gone.
C9_ImportSkipsUnknownTypes ==
    [][\A j \in JsonInputs :
          (ImportFromJSON(j) /\ SnapshotWithUnknown(j)) =>
              /\ ~last'.alert
              /\ ExportData' = KnownRecords(j.items)
              /\ ElementsOn(canvas') = MapObjs(components')
              /\ ButtonsOn(canvas') = MapObjs(components')
              /\ Len(canvas') = 2 * Len(components')]_vars

\* C10: clearAll leaves the collection empty, no instance visual and no delete
\* button on the canvas, and the id counter at its initial value.
C10_ClearAllEmptiesDiagram ==
    last.op = "clearAll" => (components = <<>> /\ canvas = <<>> /\ nextId = 1)

\* C8: constructing the preset library when the persisted entry is missing
\* or holds unparseable content does not throw and yields an empty preset map.
C8_ConstructionNeverThrows ==
    [][(NewComponentLibrary /\ (~storage.present \/ JSONParse(storage.text).threw)) =>
          (library'.state = "ready" /\ library'.saved = <<>>)]_vars

\* C11: whatever rotation an instance stores (a value loaded by import
\* included), four rotate steps in a row bring it back to that value.
C11_FourRotationsRestore ==
    \A u \in DOMAIN objs :
        RotateStep(RotateStep(RotateStep(RotateStep(objs[u].data.rotation)))) = objs[u].data.rotation

\* r is a multiple of c nearest to v
NearestMultipleOf(r, v, c) == r % c = 0 /\ 2 * (r - v) <= c /\ 2 * (v - r) <= c

Abs(n) == IF n >= 0 THEN n ELSE 0 - n

\* C12 as stated: snapToGrid(value, size) is the multiple of size nearest to
\* value, and a value exactly halfway between two multiples goes to the one
\* farther from zero.
C12_SnapHalfAwayFromZero ==
    snap.results # <<>> =>
        LET r == snap.results[1]
        IN  /\ NearestMultipleOf(r, snap.value, snap.size)
            /\ (2 * Abs(r - snap.value) = snap.size) => Abs(r) > Abs(snap.value)

\* C12 amended: snapToGrid(value, size) is the multiple of size nearest to
\* value, and a value exactly halfway between two multiples goes to the
\* greater one, whatever its sign.
C12_SnapHalfUp ==
    snap.results # <<>> =>
        LET r == snap.results[1]
        IN  /\ NearestMultipleOf(r, snap.value, snap.size)
            /\ (2 * Abs(r - snap.value) = snap.size) => r > snap.value

\* C12 witness: a negative value halfway between two multiples has been snapped
C12_Witness ==
    /\ snap.value = 0 - 10
    /\ snap.size = 20
    /\ snap.results = <<0>>

\* C13: snapping what snapToGrid returned, with the same cell size, returns it
\* unchanged.
C13_SnapIdempotent ==
    Len(snap.results) >= 2 => snap.results[2] = snap.results[1]

\* C13 witness: a value off the grid snapped twice
C13_Witness ==
    /\ Len(snap.results) = 2
    /\ snap.value % snap.size # 0
    /\ snap.value < 0
    /\ snap.results[1] # 0

\* C14: addComponent with a type the registry does not know raises nothing and
\* leaves the collection, the canvas children and the id counter as they were.
C14_UnknownTypeIsNoOp ==
    [][\A p \in PositionInputs :
          AddComponent(UnknownType, p) =>
              /\ ~last'.alert
              /\ UNCHANGED <<components, canvas, objs, nextId>>]_vars

\* C14 witness: addComponent found no definition while the diagram held an instance
C14_Witness ==
    /\ last.op = "addComponent: no definition"
    /\ Len(components) = 1
    /\ nextId = 2

\* C15: importComponents given text that JSON.parse rejects returns false and
\* leaves the in-memory preset map and the persisted entry exactly as they were.
C15_MalformedImportFails ==
    [][\A t \in MalformedTexts :
          ImportComponents(t) =>
              /\ last'.returned = FALSE
              /\ UNCHANGED <<library, storage>>]_vars

\* C15 witness: an import was rejected while the library held an entry that is
\* also in the persisted entry
C15_Witness ==
    /\ last = Returned("importComponents", FALSE)
    /\ Len(library.saved) = 1
    /\ storage = Entry(JSONStringify(library.saved))

\* a preset map as any reader sees it: a property that is undefined reads the
\* same as one that is not there
Readable(obj) ==
    [i \in 1..Len(obj) |-> [name |-> obj[i].name, data |-> StringifyData(obj[i].data)]]

\* a save, a delete or an import that returned true
LibraryMutation ==
    \/ \E n \in PresetNames, c \in PresetComponents : SaveComponent(n, c)
    \/ \E n \in PresetNames : DeleteComponent(n)
    \/ \E t \in ImportTexts : ImportComponents(t) /\ last'.returned

\* C16: after every save, delete or accepted import the persisted entry holds
\* the entries of the in-memory preset map, and a library constructed from it
\* holds the same entries.
C16_StoreMirrorsLibrary ==
    [][LibraryMutation =>
          /\ storage'.present
          /\ JSONParse(storage'.text) = [threw |-> FALSE, value |-> Readable(library'.saved)]
          /\ LoadFromStorage(storage') = [threw |-> FALSE, value |-> Readable(library'.saved)]]_vars

\* C16 witness: a delete left one entry, whose value is undefined, in the map
\* and in the persisted entry
C16_Witness ==
    /\ last.op = "deleteComponent"
    /\ Len(library.saved) = 1
    /\ ~ValueOf(library.saved[1].data).defined
    /\ storage.present
    /\ JSONParse(storage.text).value = Readable(library.saved)

\* what a component looks like to its user: class, position, rotation, label
Shown(component) ==
    [null |-> FALSE, type |-> component.type, x |-> component.x, y |-> component.y,
     rotation |-> component.rotation, value |-> component.value]

\* how many times a name is listed
Listed(obj, name) == Cardinality({i \in 1..Len(obj) : ListComponents(obj)[i] = name})

\* C17: saving under a name the library already holds overwrites the entry:
\* loadComponent of the name reproduces the component just saved, the name is
\* listed exactly once, and every other entry is as it was.
C17_SaveOverwrites ==
    [][\A n \in PresetNames, c \in PresetComponents :
          (SaveComponent(n, c) /\ ObjHas(library.saved, n)) =>
              /\ LoadComponent(library'.saved, n) = Shown(c)
              /\ Listed(library'.saved, n) = 1
              /\ Len(library'.saved) = Len(library.saved)
              /\ \A m \in PresetNames \ {n} :
                     /\ ObjHas(library'.saved, m) = ObjHas(library.saved, m)
                     /\ ObjHas(library.saved, m) =>
                            ObjGet(library'.saved, m) = ObjGet(library.saved, m)]_vars

\* C17 witness: the last save wrote the first of two entries, which was
\* therefore there before, and the other entry holds something else
C17_Witness ==
    /\ last.op = "saveComponent"
    /\ Len(library.saved) = 2
    /\ last.returned = library.saved[1].data
    /\ library.saved[2].data # library.saved[1].data

\* the component a stored snapshot describes
Snapshot(data) ==
    [null |-> FALSE, type |-> data.type, x |-> data.x, y |-> data.y,
     rotation |-> data.rotation, value |-> ValueOf(data)]

\* C18: for every name the library holds, however it got there, loadComponent
\* returns a component whose type, position, rotation and label are those of
\* the stored snapshot; it returns null only for a name the library does not hold.
C18_LoadReproducesSnapshot ==
    library.state = "ready" =>
        \A n \in PresetNames :
            IF ObjHas(library.saved, n)
            THEN LoadComponent(library.saved, n) = Snapshot(ObjGet(library.saved, n))
            ELSE LoadComponent(library.saved, n) = Null

\* whether a preview element is on the canvas
PreviewOnCanvas(c) == \E i \in DOMAIN c : c[i].kind = "preview"

\* the controller is in Idle: nothing armed in the palette or in the preview
\* manager, and no preview on the canvas
Idle == ctl.armed = NoType /\ ctl.activeType = NoType /\ ~PreviewOnCanvas(canvas)

\* the last committing click came after the last palette click
NoPickSinceCommit == tally.lastCommit.some /\ tally.lastCommit.picks = tally.picks

\* C19: placement is one shot per palette pick.  A canvas click adds an
\* instance only if a type is armed when it arrives; from a committing click
\* until the next palette click the controller is in Idle, with no type armed
\* and no preview shown; no more instances are placed than palette picks were
\* made; and a canvas click with nothing armed leaves the collection and the
\* canvas as they were.
C19_OneShotPlacement ==
    [][/\ (last'.op = "canvasClick" /\ Len(components') > Len(components))
              => ctl.armed # NoType
       /\ NoPickSinceCommit' => Idle'
       /\ tally'.placed <= tally'.picks
       /\ (last'.op = "canvasClick" /\ ctl.armed = NoType)
              => (components' = components /\ canvas' = canvas)]_vars

\* C20: a canvas click less than 200 ms after the previous placing click is
\* ignored: nothing is placed even when a type is armed again, the armed type
\* stays armed, and the time the debounce window is measured from stays as it
\* was.
C20_ClickInsideWindowIgnored ==
    [][(/\ last'.op = "canvasClick"
        /\ tally.lastCommit.some
        /\ now - tally.lastCommit.at < DebounceMs)
       => (/\ components' = components
           /\ canvas' = canvas
           /\ nextId' = nextId
           /\ ctl' = ctl
           /\ tally' = tally)]_vars

\* a click inside the window of a placing click has just been dropped while a
\* type was armed again
C20_Witness ==
    /\ last.op = "canvasClick"
    /\ last.outcome = "ignored"
    /\ ctl.armed # NoType
    /\ tally.lastCommit.some
    /\ now - tally.lastCommit.at < DebounceMs
    /\ now > tally.lastCommit.at

\* C21: a preview build whose asset fetch resolves after the armed type was
\* cleared is discarded: in every state with no armed type the canvas carries
\* no preview element and the preview manager holds none.
C21_StaleBuildDiscarded ==
    (ctl.armed = NoType /\ ctl.activeType = NoType)
        => (~PreviewOnCanvas(canvas) /\ ~ctl.previewElement.shown)

\* C22: the asset cache memoizes on first success.  Once a type is cached no
\* later load of it issues a request and its text stays the one cached; a
\* fetch that fails caches nothing; and whatever requests overlap, the cache
\* never holds anything but a successfully fetched text.
C22_CacheMemoizesFirstSuccess ==
    [][/\ \A t \in DOMAIN svgCache :
              /\ \A f \in fetches' \ fetches : f.type # t
              /\ t \in DOMAIN svgCache' /\ svgCache'[t] = svgCache[t]
       /\ (last'.op = "fetchSettle" /\ last'.outcome \in FailedOutcomes)
              => svgCache' = svgCache
       /\ \A t \in DOMAIN svgCache' : svgCache'[t] = SvgText]_vars

\* an instance brought in by importFromJSON is in the collection
ImportedPresent ==
    \E i \in DOMAIN components : objs[components[i].obj].data.rotation = ImportedRotation

\* C23: import keeps the id counter ahead of the imported ids.  Every
\* addComponent, also after an import, hands out an id that no instance in the
\* collection has, and leaves every instance that was in the collection in its
\* place under its id.
C23_AddAfterImportIsFresh ==
    [][last'.op = "addComponent"
       => /\ ~MapHas(components, ComponentId(nextId))
          /\ \A k \in KeyNumbers(components) : k < nextId
          /\ Len(components') = Len(components) + 1
          /\ \A i \in DOMAIN components : components'[i] = components[i]
          /\ components'[Len(components')].key = ComponentId(nextId)]_vars

\* an instance has just been placed next to an imported one
C23_Witness ==
    /\ last.op = "addComponent"
    /\ ImportedPresent
    /\ Len(components) >= 2
    /\ objs[components[Len(components)].obj].data.rotation = 0

\* C24: whenever a preview element is on the canvas, its graphic was built
\* from the asset of the type that is armed, also when the type was switched
\* while the build was waiting for its asset.
C24_PreviewShowsArmedType ==
    PreviewOnCanvas(canvas)
        => (ctl.previewElement.shown /\ ctl.previewElement.asset = ctl.activeType
            /\ ctl.activeType = ctl.armed)

\* C26: with two controllers on the page, a removal in one of them (delete
\* button, clearAll) leaves the collection of the other as it was, also when
\* both hold an instance with the same id.
C26_RemovalStaysInItsController ==
    [][/\ last'.op \in {"deleteButton", "clearAll"} => peer'.components = peer.components
       /\ last'.op \in {"peer deleteButton", "peer clearAll"} => components' = components]_vars

\* C25: in the circuit editor every group on the svg is the element of an
\* entry of CircuitDiagram.components, also after a render that was awaited
\* while its component was removed has completed.
C25_EveryGroupHasItsInstance ==
    editor.mounted =>
        \A k \in DOMAIN editor.svg :
            \E i \in DOMAIN editor.components : editor.components[i].element = editor.svg[k]

\* the keys of the collection in map order
KeyOrder == [i \in DOMAIN components |-> components[i].key]

\* C27: export followed by import is the identity on the diagram.  The
\* collection holds the same records (id, type, position, rotation, scale)
\* under the same keys in the same order, and exporting again gives the same
\* JSON.
C27_ExportImportIsIdentity ==
    [][last'.op = "exportThenImport"
       => /\ ~last'.alert
          /\ ExportData' = ExportData
          /\ KeyOrder' = KeyOrder
          /\ \A i \in DOMAIN components : components[i].key = ExportData[i].id
          /\ StringifyRecords(ExportData') = StringifyRecords(ExportData)]_vars

\* a diagram of two instances, one dragged off its place and one rotated, has
\* just gone through export and import
C27_Witness ==
    /\ last.op = "exportThenImport"
    /\ Len(components) = 2
    /\ \E i \in DOMAIN ExportData : ExportData[i].position.x < 0
    /\ \E i \in DOMAIN ExportData : ExportData[i].rotation = 270
    /\ ExportData[1].id = ComponentId(2)

\* C28: a canvas click with a type armed is dropped by the debounce only if
\* it comes less than 200 ms after a click that placed an instance; a click
\* that placed nothing never makes a later armed click be dropped.
C28_DroppedOnlyAfterPlacingClick ==
    [][(last'.op = "canvasClick" /\ last'.outcome = "ignored" /\ ctl.armed # NoType)
       => (tally.lastCommit.some /\ now - tally.lastCommit.at < DebounceMs)]_vars

\* the preview elements on the canvas
PreviewNodes == {i \in DOMAIN canvas : canvas[i].kind = "preview"}

\* C29: at every moment at most one element with the preview marker is on the
\* canvas, whatever the order of pointer moves, selections, deselections,
\* mouse-leave events and completions of asset fetches.
C29_AtMostOnePreview == Cardinality(PreviewNodes) <= 1

\* a preview is shown again after an earlier one was hidden by a change of the
\* selection while a build was waiting
C29_Witness ==
    /\ Cardinality(PreviewNodes) = 1
    /\ last.op = "pointerMove"
    /\ tally.picks >= 2
    /\ ctl.previewElement.shown
    /\ DOMAIN svgCache # {}

\* C30: the isUpdating guard is set only while a preview build waits for its
\* asset, and every build that set it resets it once the asset fetch has
\* settled, whether a preview was made or not; so previews are never blocked
\* for good.
C30_GuardIsAlwaysReset ==
    /\ [](ctl.isUpdating => ctl.build.running)
    /\ ctl.isUpdating ~> ~ctl.isUpdating

\* a build has just ended without a preview (failed or empty asset load) while
\* its type is still armed, and the guard is down
C30_Witness ==
    /\ last.op = "buildSettle"
    /\ ~ctl.isUpdating
    /\ ~ctl.previewElement.shown
    /\ ctl.activeType # NoType

====
